---- MODULE Spec2Model ----
(***************************************************************************)
(* The shared order-queue store of the reception queue system and its     *)
(* control tool (reception_queue_system/control_queue.py), and the         *)
(* polling display that reads the store (display_board.py).                *)
(*                                                                         *)
(* Strings are sequences of one-character strings, so that formatting an  *)
(* id from the counter and parsing a counter value from an id are         *)
(* computed, not assumed.  The three status literals of the code are      *)
(* written RECEIVED, IN_PROGRESS and DONE.  A timestamp is the number of  *)
(* seconds read from the clock; an optional field of an order (a key the  *)
(* dict may lack) is <<>> when absent and <<t>> when present.             *)
(***************************************************************************)
EXTENDS Integers, Sequences, FiniteSets, TLC

\* Bounds of the model.
MaxOrders == 2
MaxCount == 3
MaxClock == 2
MaxMtime == 2
MaxFeedOrders == 1

VARIABLES
    file,   \* the content of queue.json
    now,    \* the latest reading of the wall clock (seconds)
    last,   \* the latest control invocation: command, argument, outcome
    issued, \* history: the largest number among the ids register has returned
    mtime,  \* st_mtime of queue.json
    last_mtime,        \* QueueDisplayApp.last_mtime: <<>> is None
    waiting_snapshot,  \* QueueDisplayApp.waiting_snapshot: id -> status
    calling_snapshot,  \* QueueDisplayApp.calling_snapshot: id -> status
    waiting_var,       \* what the waiting panel shows
    calling_var,       \* what the calling panel shows
    polling,           \* a call of _poll_queue is scheduled
    tick,              \* the latest run of _poll_queue: outcome, lists, events
    stat_mtime,        \* the local mtime of a run of _poll_queue between its
                       \* stat and its read: <<>> when no run is there
    procs,    \* the control processes that run step by step: position, data
    complete  \* history: the latest content a save finished writing

displayVars == <<last_mtime, waiting_snapshot, calling_snapshot, waiting_var,
                 calling_var, polling, tick, stat_mtime>>

vars == <<file, now, last, issued, mtime, last_mtime, waiting_snapshot,
          calling_snapshot, waiting_var, calling_var, polling, tick,
          stat_mtime, procs, complete>>

----------------------------------------------------------------------------
\* Strings

Digits == {"0", "1", "2", "3", "4", "5", "6", "7", "8", "9"}

\* U+00B2, a character for which str.isdigit() is true and int() fails.
SuperscriptTwo == "sup2"

DigitVal(c) ==
    CASE c = "0" -> 0 [] c = "1" -> 1 [] c = "2" -> 2 [] c = "3" -> 3
      [] c = "4" -> 4 [] c = "5" -> 5 [] c = "6" -> 6 [] c = "7" -> 7
      [] c = "8" -> 8 [] c = "9" -> 9

DigitChar(d) == CHOOSE c \in Digits : DigitVal(c) = d

\* str.isdigit(): non-empty and every character is a digit character.
IsDigit(s) == Len(s) > 0 /\ \A i \in 1..Len(s) : s[i] \in Digits \cup {SuperscriptTwo}

\* int(s) accepts s (s is a non-empty run of decimal digits).
IntAccepts(s) == Len(s) > 0 /\ \A i \in 1..Len(s) : s[i] \in Digits

RECURSIVE StrToInt(_)
StrToInt(s) ==
    IF Len(s) = 0 THEN 0
    ELSE StrToInt(SubSeq(s, 1, Len(s) - 1)) * 10 + DigitVal(s[Len(s)])

RECURSIVE IntToStr(_)
IntToStr(n) ==
    IF n < 10 THEN <<DigitChar(n)>>
    ELSE IntToStr(n \div 10) \o <<DigitChar(n % 10)>>

RECURSIVE ZeroPad(_, _)
ZeroPad(s, width) == IF Len(s) >= width THEN s ELSE ZeroPad(<<"0">> \o s, width)

\* f"{n:03d}" for n >= 0
Format03d(n) == ZeroPad(IntToStr(n), 3)

\* Python's None where a string is expected (an omitted --order-id).
None == <<"None">>

\* Truth value of an Optional[str]: None and "" are false.
Truthy(s) == s # None /\ s # <<>>

----------------------------------------------------------------------------
\* The queue file

RECEIVED == "RECEIVED"
IN_PROGRESS == "IN_PROGRESS"
DONE == "DONE"

AbsentFile ==
    [kind |-> "absent",
     orders |-> [tag |-> "missing", items |-> <<>>],
     count |-> [tag |-> "missing", val |-> 0]]

\* A JSON object {"orders": [...], "count": n}
ObjectFile(orders, count) ==
    [kind |-> "object",
     orders |-> [tag |-> "list", items |-> orders],
     count |-> [tag |-> "int", val |-> count]]

\* Mutant of LoadQueue: the JSONDecodeError of an unparseable file is not
\* caught.
LoadQueueStrict(f) ==
    IF f.kind = "nonobject"
    THEN [err |-> "AttributeError", orders |-> <<>>, count |-> 0]
    ELSE IF f.kind = "garbage"
    THEN [err |-> "JSONDecodeError", orders |-> <<>>, count |-> 0]
    ELSE LET data == IF f.kind = "object" THEN f ELSE AbsentFile
             orders == IF data.orders.tag = "list" THEN data.orders.items ELSE <<>>
             count == CASE data.count.tag = "int" -> data.count.val
                        [] data.count.tag = "intstr" -> data.count.val
                        [] OTHER -> 0
         IN [err |-> "ok", orders |-> orders, count |-> count]

\* load_queue: a missing or unparseable file is read as {}; a JSON value that
\* is not an object has no .get and the call raises AttributeError.
LoadQueue(f) ==
    IF f.kind = "nonobject"
    THEN [err |-> "AttributeError", orders |-> <<>>, count |-> 0]
    ELSE LET data == IF f.kind = "object" THEN f ELSE AbsentFile
             orders == IF data.orders.tag = "list" THEN data.orders.items ELSE <<>>
             count == CASE data.count.tag = "int" -> data.count.val
                        [] data.count.tag = "intstr" -> data.count.val
                        [] OTHER -> 0
         IN [err |-> "ok", orders |-> orders, count |-> count]

\* Mutant of SaveQueue: the counter is saved as the number of orders.
SaveQueueCountsOrders(orders, count) == ObjectFile(orders, Len(orders))

\* Mutant of SaveQueue: the counter is left out of the saved object.
SaveQueueNoCount(orders, count) ==
    [kind |-> "object",
     orders |-> [tag |-> "list", items |-> orders],
     count |-> [tag |-> "missing", val |-> 0]]

\* save_queue
SaveQueue(orders, count) == ObjectFile(orders, count)

----------------------------------------------------------------------------
\* Operations of control_queue.py on a loaded snapshot

\* Mutant of NewOrder: the new order is stored as in progress.
NewOrderStarted(id, t) ==
    [id |-> id, status |-> IN_PROGRESS, queued_at |-> <<t>>,
     updated_at |-> <<>>, completed_at |-> <<>>]

\* The entry register_order appends
NewOrder(id, t) ==
    [id |-> id, status |-> RECEIVED, queued_at |-> <<t>>,
     updated_at |-> <<>>, completed_at |-> <<>>]

\* Mutant of HasId: the order itself, not its id, is compared with the id,
\* and the two are never equal.
HasIdNever(orders, order_id) == FALSE

\* ensure_unique_id raises iff some order has the id
HasId(orders, order_id) == \E i \in 1..Len(orders) : orders[i].id = order_id

\* The status argument of pick_order when no status is required.
NoStatus == "None"

\* Mutant of ScanById: an id that is not found falls back to the first order.
RECURSIVE ScanByIdOrFirst(_, _, _)
ScanByIdOrFirst(orders, order_id, i) ==
    IF i > Len(orders) THEN (IF Len(orders) > 0 THEN 1 ELSE 0)
    ELSE IF orders[i].id = order_id THEN i
    ELSE ScanByIdOrFirst(orders, order_id, i + 1)

\* for order in orders: if str(order.get("id")) == order_id: target = order; break
RECURSIVE ScanById(_, _, _)
ScanById(orders, order_id, i) ==
    IF i > Len(orders) THEN 0
    ELSE IF orders[i].id = order_id THEN i
    ELSE ScanById(orders, order_id, i + 1)

\* Mutant of ScanByStatus: the first order is taken whatever its status.
ScanByStatusFirst(orders, status, i) == IF Len(orders) > 0 THEN 1 ELSE 0

\* for order in orders: if status is None or order.get("status") == status: ...; break
RECURSIVE ScanByStatus(_, _, _)
ScanByStatus(orders, status, i) ==
    IF i > Len(orders) THEN 0
    ELSE IF status = NoStatus \/ orders[i].status = status THEN i
    ELSE ScanByStatus(orders, status, i + 1)

\* Mutant of PickOrder: the empty string is looked up as an id.
PickOrderEmptyIsId(orders, order_id, status) ==
    LET idx == IF order_id # None THEN ScanById(orders, order_id, 1)
               ELSE ScanByStatus(orders, status, 1)
    IN IF idx = 0 THEN [err |-> "NotFound", idx |-> 0]
       ELSE IF status # NoStatus /\ orders[idx].status # status
            THEN [err |-> "InvalidState", idx |-> 0]
            ELSE [err |-> "ok", idx |-> idx]

\* Mutant of PickOrder: the status of an order located by id is not checked.
PickOrderUnchecked(orders, order_id, status) ==
    LET idx == IF Truthy(order_id) THEN ScanById(orders, order_id, 1)
               ELSE ScanByStatus(orders, status, 1)
    IN IF idx = 0 THEN [err |-> "NotFound", idx |-> 0]
       ELSE [err |-> "ok", idx |-> idx]

\* pick_order: the index of the target (0 when it raises) and the error raised
PickOrder(orders, order_id, status) ==
    LET idx == IF Truthy(order_id) THEN ScanById(orders, order_id, 1)
               ELSE ScanByStatus(orders, status, 1)
    IN IF idx = 0 THEN [err |-> "NotFound", idx |-> 0]
       ELSE IF status # NoStatus /\ orders[idx].status # status
            THEN [err |-> "InvalidState", idx |-> 0]
            ELSE [err |-> "ok", idx |-> idx]

\* Mutant of GenerateAutoCount: the increment is forgotten.
GenerateAutoCountStale(count) == count

\* generate_auto_id: the incremented counter
GenerateAutoCount(count) == count + 1

\* Mutant of GenerateAutoId: the counter is written without padding.
GenerateAutoIdUnpadded(count) == IntToStr(count)

\* generate_auto_id: the id returned for the incremented counter
GenerateAutoId(count) == Format03d(count)

\* Mutant of MaybeUpdateCount: an explicit id never moves the counter.
MaybeUpdateCountNever(count, order_id) == count

\* maybe_update_count: the counter after an explicit id (int() accepting it)
MaybeUpdateCount(count, order_id) ==
    IF IsDigit(order_id) /\ StrToInt(order_id) > count
    THEN StrToInt(order_id)
    ELSE count

\* Mutant of RemoveAt: the head of the queue is popped, not the target.
RemoveHead(orders, idx) == Tail(orders)

\* [order for order in orders if order is not target]
RemoveAt(orders, idx) ==
    [i \in 1..(Len(orders) - 1) |-> IF i < idx THEN orders[i] ELSE orders[i + 1]]

\* The outcome of an invocation that saved nothing.
Failed(f, err) == [err |-> err, file |-> f, ret |-> None]

\* Mutant of RegisterOrder: an explicit id is not checked against the queue.
RegisterOrderExplicitUnchecked(f, order_id, t) ==
    LET q == LoadQueue(f) IN
    IF q.err # "ok" THEN Failed(f, q.err)
    ELSE IF Truthy(order_id)
    THEN IF IsDigit(order_id) /\ ~IntAccepts(order_id) THEN Failed(f, "ValueError")
         ELSE [err |-> "ok",
               file |-> SaveQueue(Append(q.orders, NewOrder(order_id, t)),
                                  MaybeUpdateCount(q.count, order_id)),
               ret |-> order_id]
    ELSE LET count == GenerateAutoCount(q.count)
             new_id == GenerateAutoId(count)
         IN IF HasId(q.orders, new_id) THEN Failed(f, "DuplicateId")
            ELSE [err |-> "ok",
                  file |-> SaveQueue(Append(q.orders, NewOrder(new_id, t)), count),
                  ret |-> new_id]

\* Mutant of RegisterOrder: a generated id that collides is refused after the
\* incremented counter was saved.
RegisterOrderCountsFailure(f, order_id, t) ==
    LET q == LoadQueue(f) IN
    IF q.err # "ok" THEN Failed(f, q.err)
    ELSE IF Truthy(order_id)
    THEN IF HasId(q.orders, order_id) THEN Failed(f, "DuplicateId")
         ELSE IF IsDigit(order_id) /\ ~IntAccepts(order_id) THEN Failed(f, "ValueError")
         ELSE [err |-> "ok",
               file |-> SaveQueue(Append(q.orders, NewOrder(order_id, t)),
                                  MaybeUpdateCount(q.count, order_id)),
               ret |-> order_id]
    ELSE LET count == GenerateAutoCount(q.count)
             new_id == GenerateAutoId(count)
         IN IF HasId(q.orders, new_id)
            THEN [err |-> "DuplicateId", file |-> SaveQueue(q.orders, count),
                  ret |-> None]
            ELSE [err |-> "ok",
                  file |-> SaveQueue(Append(q.orders, NewOrder(new_id, t)), count),
                  ret |-> new_id]

\* Mutant of RegisterOrder: a generated id is not checked against the queue.
RegisterOrderAutoUnchecked(f, order_id, t) ==
    LET q == LoadQueue(f) IN
    IF q.err # "ok" THEN Failed(f, q.err)
    ELSE IF Truthy(order_id)
    THEN IF HasId(q.orders, order_id) THEN Failed(f, "DuplicateId")
         ELSE IF IsDigit(order_id) /\ ~IntAccepts(order_id) THEN Failed(f, "ValueError")
         ELSE [err |-> "ok",
               file |-> SaveQueue(Append(q.orders, NewOrder(order_id, t)),
                                  MaybeUpdateCount(q.count, order_id)),
               ret |-> order_id]
    ELSE LET count == GenerateAutoCount(q.count)
             new_id == GenerateAutoId(count)
         IN [err |-> "ok",
             file |-> SaveQueue(Append(q.orders, NewOrder(new_id, t)), count),
             ret |-> new_id]

\* register_order
RegisterOrder(f, order_id, t) ==
    LET q == LoadQueue(f) IN
    IF q.err # "ok" THEN Failed(f, q.err)
    ELSE IF Truthy(order_id)
    THEN IF HasId(q.orders, order_id) THEN Failed(f, "DuplicateId")
         ELSE IF IsDigit(order_id) /\ ~IntAccepts(order_id) THEN Failed(f, "ValueError")
         ELSE [err |-> "ok",
               file |-> SaveQueue(Append(q.orders, NewOrder(order_id, t)),
                                  MaybeUpdateCount(q.count, order_id)),
               ret |-> order_id]
    ELSE LET count == GenerateAutoCount(q.count)
             new_id == GenerateAutoId(count)
         IN IF HasId(q.orders, new_id) THEN Failed(f, "DuplicateId")
            ELSE [err |-> "ok",
                  file |-> SaveQueue(Append(q.orders, NewOrder(new_id, t)), count),
                  ret |-> new_id]

\* Mutant of WithStatus: no timestamp is written.
WithStatusUnstamped(order, new_status, t) == [order EXCEPT !.status = new_status]

\* Mutant of WithStatus: updated_at is written on every status change.
WithStatusTouched(order, new_status, t) ==
    IF new_status = IN_PROGRESS
    THEN [order EXCEPT !.status = new_status, !.updated_at = <<t>>]
    ELSE IF new_status = DONE
    THEN [order EXCEPT !.status = new_status, !.updated_at = <<t>>,
                       !.completed_at = <<t>>]
    ELSE [order EXCEPT !.status = new_status]

\* Mutant of WithStatus: the two timestamp fields are swapped.
WithStatusSwapped(order, new_status, t) ==
    IF new_status = IN_PROGRESS
    THEN [order EXCEPT !.status = new_status, !.completed_at = <<t>>]
    ELSE IF new_status = DONE
    THEN [order EXCEPT !.status = new_status, !.updated_at = <<t>>]
    ELSE [order EXCEPT !.status = new_status]

\* The order after update_status set its status (and its timestamp)
WithStatus(order, new_status, t) ==
    IF new_status = IN_PROGRESS
    THEN [order EXCEPT !.status = new_status, !.updated_at = <<t>>]
    ELSE IF new_status = DONE
    THEN [order EXCEPT !.status = new_status, !.completed_at = <<t>>]
    ELSE [order EXCEPT !.status = new_status]

\* Mutant of UpdateStatus: a transition that is not forward is refused.
UpdateStatusForwardOnly(f, order_id, new_status, t) ==
    LET q == LoadQueue(f) IN
    IF q.err # "ok" THEN Failed(f, q.err)
    ELSE LET p == PickOrder(q.orders, order_id, NoStatus) IN
         IF p.err # "ok" THEN Failed(f, p.err)
         ELSE IF \/ q.orders[p.idx].status = DONE
                 \/ q.orders[p.idx].status = new_status
              THEN Failed(f, "InvalidState")
         ELSE [err |-> "ok",
               file |-> SaveQueue([q.orders EXCEPT ![p.idx] = WithStatus(@, new_status, t)],
                                  q.count),
               ret |-> q.orders[p.idx].id]

\* update_status
UpdateStatus(f, order_id, new_status, t) ==
    LET q == LoadQueue(f) IN
    IF q.err # "ok" THEN Failed(f, q.err)
    ELSE LET p == PickOrder(q.orders, order_id, NoStatus) IN
         IF p.err # "ok" THEN Failed(f, p.err)
         ELSE [err |-> "ok",
               file |-> SaveQueue([q.orders EXCEPT ![p.idx] = WithStatus(@, new_status, t)],
                                  q.count),
               ret |-> q.orders[p.idx].id]

\* Mutant of RemoveOrder: the counter is saved as the number of orders left.
RemoveOrderRecount(f, order_id, require_complete) ==
    LET q == LoadQueue(f)
        status == IF require_complete THEN DONE ELSE NoStatus
    IN
    IF q.err # "ok" THEN Failed(f, q.err)
    ELSE LET p == PickOrder(q.orders, order_id, status) IN
         IF p.err # "ok" THEN Failed(f, p.err)
         ELSE [err |-> "ok",
               file |-> SaveQueue(RemoveAt(q.orders, p.idx), Len(q.orders) - 1),
               ret |-> q.orders[p.idx].id]

\* remove_order
RemoveOrder(f, order_id, require_complete) ==
    LET q == LoadQueue(f)
        status == IF require_complete THEN DONE ELSE NoStatus
    IN
    IF q.err # "ok" THEN Failed(f, q.err)
    ELSE LET p == PickOrder(q.orders, order_id, status) IN
         IF p.err # "ok" THEN Failed(f, p.err)
         ELSE [err |-> "ok",
               file |-> SaveQueue(RemoveAt(q.orders, p.idx), q.count),
               ret |-> q.orders[p.idx].id]

----------------------------------------------------------------------------
\* Inputs

\* Explicit ids given on the command line: one that the counter can also
\* generate, an unpadded number, a non-numeric id, and an id that isdigit()
\* accepts and int() rejects.
ExplicitIds == {<<"0", "0", "2">>, <<"3">>, <<"A">>, <<SuperscriptTwo>>}

\* register --order-id: omitted, empty, or an explicit id
RegisterArgs == {None, <<>>} \cup ExplicitIds

\* The ids of the orders in the file
StoredIds(f) == {LoadQueue(f).orders[i].id : i \in 1..Len(LoadQueue(f).orders)}

\* An id that is never registered
UnknownId == <<"X">>

\* The positional order_id of start, finish and cancel: a stored id, an id no
\* order has, or the empty string
IdArgs(f) == StoredIds(f) \cup {UnknownId, <<>>}

\* handoff --order-id may also be omitted
HandoffArgs(f) == IdArgs(f) \cup {None}

\* The model's bounds on the size of the stored queue and on the counter
WithinBounds(f) ==
    /\ Len(f.orders.items) <= MaxOrders
    /\ f.count.val <= MaxCount

----------------------------------------------------------------------------
\* The report of main

\* The failures the handlers raise as ValueError: the three checks of
\* ensure_unique_id and pick_order, and int() refusing an explicit id
ValueErrors == {"NotFound", "DuplicateId", "InvalidState", "ValueError"}

\* Mutant of Audit: main has no except clause.
AuditUncaught(err) ==
    IF err = "ok" THEN [lines |-> <<"INFO">>, raised |-> "none"]
    ELSE [lines |-> <<>>, raised |-> err]

\* main with a log file that can be written: the levels of the lines
\* append_log writes and the exception that leaves main
Audit(err) ==
    IF err = "ok" THEN [lines |-> <<"INFO">>, raised |-> "none"]
    ELSE IF err \in ValueErrors THEN [lines |-> <<"ERROR">>, raised |-> "none"]
    ELSE [lines |-> <<>>, raised |-> err]

----------------------------------------------------------------------------
\* One control invocation per step (main).  clock is the set of seconds the
\* invocation may read from the wall clock.

Invoke(op, arg, r, t) ==
    /\ r.err = "ok" => WithinBounds(r.file)
    /\ file' = r.file
    /\ mtime' = IF r.err = "ok" THEN t ELSE mtime
    /\ complete' = IF r.err = "ok" THEN r.file ELSE complete
    /\ UNCHANGED displayVars
    /\ UNCHANGED procs
    /\ now' = t
    /\ last' = [op |-> op, arg |-> arg, err |-> r.err, ret |-> r.ret,
                lines |-> Audit(r.err).lines, raised |-> Audit(r.err).raised]
    /\ issued' = IF op = "register" /\ r.err = "ok" /\ IntAccepts(r.ret)
                    /\ StrToInt(r.ret) > issued
                 THEN StrToInt(r.ret)
                 ELSE issued

Register(clock) ==
    \E order_id \in RegisterArgs, t \in clock :
        Invoke("register", order_id, RegisterOrder(file, order_id, t), t)

Start(clock) ==
    \E order_id \in IdArgs(file), t \in clock :
        Invoke("start", order_id, UpdateStatus(file, order_id, IN_PROGRESS, t), t)

Finish(clock) ==
    \E order_id \in IdArgs(file), t \in clock :
        Invoke("finish", order_id, UpdateStatus(file, order_id, DONE, t), t)

Handoff(clock) ==
    \E order_id \in HandoffArgs(file), t \in clock :
        Invoke("handoff", order_id, RemoveOrder(file, order_id, TRUE), t)

Cancel(clock) ==
    \E order_id \in IdArgs(file), t \in clock :
        Invoke("cancel", order_id, RemoveOrder(file, order_id, FALSE), t)

NoInvocation ==
    [op |-> "none", arg |-> None, err |-> "ok", ret |-> None,
     lines |-> <<>>, raised |-> "none"]

\* A panel showing a message instead of a list
Message(text) == [text |-> text, items |-> <<>>]

\* No run of _poll_queue yet
NoTick ==
    [outcome |-> "none", waiting |-> <<>>, calling |-> <<>>, events |-> {}]

\* QueueDisplayApp.__init__
DisplayInit ==
    /\ last_mtime = <<>>
    /\ waiting_snapshot = <<>>
    /\ calling_snapshot = <<>>
    /\ waiting_var = Message("loading")
    /\ calling_var = Message("loading")
    /\ polling = TRUE
    /\ tick = NoTick
    /\ stat_mtime = <<>>

\* The control processes
Procs == {1, 2}

\* A control process that is not running
IdleProc ==
    [pc |-> "idle", op |-> "none", arg |-> None, pending |-> AbsentFile,
     loaded |-> 0, truncated |-> FALSE, err |-> "ok", ret |-> None,
     overlap |-> FALSE, exit |-> "ok"]

\* No control process is running
ProcsInit ==
    /\ procs = [p \in Procs |-> IdleProc]
    /\ complete = file

\* The store is missing or holds an empty queue.
Init ==
    /\ file \in {AbsentFile, ObjectFile(<<>>, 0)}
    /\ now = 1
    /\ last = NoInvocation
    /\ issued = 0
    /\ mtime = 0
    /\ DisplayInit
    /\ ProcsInit

\* No handler reads a stored timestamp or branches on the clock: ids, statuses,
\* positions and the counter evolve the same whatever the clock reads.  Next
\* runs every invocation within one second of the clock; NextClock lets the
\* clock advance (it does not run backwards).
Next ==
    \/ Register({now})
    \/ Start({now})
    \/ Finish({now})
    \/ Handoff({now})
    \/ Cancel({now})

Spec == Init /\ [][Next]_vars

NextClock ==
    \/ Register(now..MaxClock)
    \/ Start(now..MaxClock)
    \/ Finish(now..MaxClock)
    \/ Handoff(now..MaxClock)
    \/ Cancel(now..MaxClock)

SpecClock == Init /\ [][NextClock]_vars

----------------------------------------------------------------------------
\* A store that was edited by hand or damaged before the tool runs

StoredCounts ==
    {[tag |-> "missing", val |-> 0], [tag |-> "null", val |-> 0],
     [tag |-> "badstr", val |-> 0], [tag |-> "intstr", val |-> 1],
     [tag |-> "int", val |-> 0], [tag |-> "int", val |-> 1]}

StoredOrders ==
    {[tag |-> "missing", items |-> <<>>], [tag |-> "other", items |-> <<>>],
     [tag |-> "list", items |-> <<>>],
     [tag |-> "list", items |-> <<NewOrder(Format03d(1), 1)>>]}

StoreFiles ==
    {AbsentFile, [AbsentFile EXCEPT !.kind = "garbage"],
     [AbsentFile EXCEPT !.kind = "nonobject"]}
    \cup {[kind |-> "object", orders |-> o, count |-> c] :
            o \in StoredOrders, c \in StoredCounts}

InitStore ==
    /\ file \in StoreFiles
    /\ now = 1
    /\ last = NoInvocation
    /\ issued = 0
    /\ mtime = 0
    /\ DisplayInit
    /\ ProcsInit

SpecStore == InitStore /\ [][Next]_vars

----------------------------------------------------------------------------
\* The display board (display_board.py)

\* Status values a hand-edited store may hold beside the three literals
PaddedDone == " DONE "
OnHold == "HOLD"

\* Mutant of WAITING_STATUSES: an order in progress is not waiting.
WaitingStatusesReceivedOnly == {RECEIVED}

WAITING_STATUSES == {RECEIVED, IN_PROGRESS}
CALLING_STATUSES == {DONE}

\* str.strip on the status values of the model
Strip(status) == IF status = PaddedDone THEN DONE ELSE status

\* parse_iso: a missing timestamp reads as 0
ParseIso(value) == IF value = <<>> THEN 0 ELSE value[1]

\* Mutant of CallingKey: no fallback to updated_at.
CallingKeyCompletedOnly(order) == ParseIso(order.completed_at)

\* The time keys of the two sorts
WaitingKey(order) == ParseIso(order.queued_at)
CallingKey(order) ==
    ParseIso(IF order.completed_at # <<>> THEN order.completed_at
             ELSE order.updated_at)

\* Mutant of Before: the index does not break ties.
BeforeByKey(a, b) == a.key < b.key

\* The order of the tuples (time key, __index)
Before(a, b) == a.key < b.key \/ (a.key = b.key /\ a.index < b.index)

RECURSIVE InsertEntry(_, _)
InsertEntry(e, s) ==
    IF s = <<>> THEN <<e>>
    ELSE IF Before(e, Head(s)) THEN <<e>> \o s
    ELSE <<Head(s)>> \o InsertEntry(e, Tail(s))

\* list.sort on the keyed entries
RECURSIVE SortEntries(_)
SortEntries(s) ==
    IF s = <<>> THEN <<>> ELSE InsertEntry(Head(s), SortEntries(Tail(s)))

\* The entries of one panel before sorting: the orders whose stripped status
\* is in statuses, each with its __index and its time key
RECURSIVE Panel(_, _, _, _)
Panel(orders, i, statuses, calling) ==
    IF i > Len(orders) THEN <<>>
    ELSE (IF Strip(orders[i].status) \in statuses
          THEN <<[index |-> i - 1,
                  key |-> IF calling THEN CallingKey(orders[i])
                          ELSE WaitingKey(orders[i]),
                  order |-> orders[i]]>>
          ELSE <<>>) \o Panel(orders, i + 1, statuses, calling)

\* Mutant of LoadOrders: a file that is not JSON reads as an empty queue.
LoadOrdersSelfHealing(f) ==
    IF f.kind = "nonobject" \/ (f.kind = "object" /\ f.orders.tag = "other")
    THEN [err |-> "Exception", waiting |-> <<>>, calling |-> <<>>]
    ELSE LET orders == IF f.kind = "object" /\ f.orders.tag = "list"
                       THEN f.orders.items ELSE <<>>
         IN [err |-> "ok",
             waiting |-> SortEntries(Panel(orders, 1, WAITING_STATUSES, FALSE)),
             calling |-> SortEntries(Panel(orders, 1, CALLING_STATUSES, TRUE))]

\* load_orders: raises on a file that is not JSON, on a JSON value that is
\* not an object and on an "orders" value that is truthy and not iterable as
\* objects; a missing, null or empty "orders" value reads as no orders.
LoadOrders(f) ==
    IF f.kind # "object" \/ f.orders.tag = "other"
    THEN [err |-> "Exception", waiting |-> <<>>, calling |-> <<>>]
    ELSE LET orders == IF f.orders.tag = "list" THEN f.orders.items ELSE <<>>
         IN [err |-> "ok",
             waiting |-> SortEntries(Panel(orders, 1, WAITING_STATUSES, FALSE)),
             calling |-> SortEntries(Panel(orders, 1, CALLING_STATUSES, TRUE))]

\* Mutant of Current: an order in progress is not in the mapping.
CurrentUnstarted(entries) ==
    LET ids == {entries[k].order.id : k \in {j \in 1..Len(entries) :
                   /\ Truthy(entries[j].order.id)
                   /\ entries[j].order.status # IN_PROGRESS}}
        LastOf(id) == CHOOSE k \in 1..Len(entries) :
                         /\ entries[k].order.id = id
                         /\ \A j \in (k + 1)..Len(entries) : entries[j].order.id # id
    IN [id \in ids |-> entries[LastOf(id)].order.status]

\* _record_panel_events: the id -> status mapping of a panel (orders without
\* an id are skipped, a later order replaces an earlier one of the same id)
\* and the ids that entered or left the panel
Current(entries) ==
    LET ids == {entries[k].order.id : k \in {j \in 1..Len(entries) :
                                              Truthy(entries[j].order.id)}}
        LastOf(id) == CHOOSE k \in 1..Len(entries) :
                         /\ entries[k].order.id = id
                         /\ \A j \in (k + 1)..Len(entries) : entries[j].order.id # id
    IN [id \in ids |-> entries[LastOf(id)].order.status]

\* Mutant of PanelEvents: an id that left the panel is not reported.
PanelEventsEnteredOnly(panel_name, previous, current) ==
    {[panel |-> panel_name, id |-> id, shown |-> TRUE] :
        id \in DOMAIN current \ DOMAIN previous}

PanelEvents(panel_name, previous, current) ==
    {[panel |-> panel_name, id |-> id, shown |-> TRUE] :
        id \in DOMAIN current \ DOMAIN previous}
    \cup {[panel |-> panel_name, id |-> id, shown |-> FALSE] :
        id \in DOMAIN previous \ DOMAIN current}

\* Mutant of WaitingText: the first line of the panel is lost.
WaitingTextTail(waiting) ==
    [text |-> IF waiting = <<>> THEN "none" ELSE "list",
     items |-> [k \in 1..(Len(waiting) - 1) |->
                   <<waiting[k + 1].order.id, waiting[k + 1].order.status>>]]

\* The text of the two panels
WaitingText(waiting) ==
    [text |-> IF waiting = <<>> THEN "none" ELSE "list",
     items |-> [k \in 1..Len(waiting) |->
                   <<waiting[k].order.id, waiting[k].order.status>>]]
CallingText(calling) ==
    [text |-> IF calling = <<>> THEN "none" ELSE "list",
     items |-> [k \in 1..Len(calling) |-> calling[k].order.id]]

\* The fields of the display as one record
Display ==
    [last_mtime |-> last_mtime, waiting_snapshot |-> waiting_snapshot,
     calling_snapshot |-> calling_snapshot, waiting_var |-> waiting_var,
     calling_var |-> calling_var, polling |-> polling, tick |-> tick]

\* Mutant of ShowError: the mappings are emptied with the panels.
ShowErrorForgets(d, message, outcome, log_ok) ==
    [d EXCEPT !.waiting_var = Message(message),
              !.calling_var = Message(message),
              !.waiting_snapshot = <<>>,
              !.calling_snapshot = <<>>,
              !.polling = log_ok,
              !.tick = [NoTick EXCEPT !.outcome = outcome]]

\* _show_error, then the rest of _poll_queue: both panels show the message;
\* when the log cannot be written append_log raises out of _poll_queue and
\* the next poll is not scheduled.
ShowError(d, message, outcome, log_ok) ==
    [d EXCEPT !.waiting_var = Message(message),
              !.calling_var = Message(message),
              !.polling = log_ok,
              !.tick = [NoTick EXCEPT !.outcome = outcome]]

\* Mutant of LoadFailed: the watermark advances on a failed reload.
LoadFailedAdvances(d, m, log_ok) ==
    [ShowError(d, "failed", "failed", log_ok) EXCEPT !.last_mtime = <<m>>]

\* The except branch of _poll_queue after load_orders raised
LoadFailed(d, m, log_ok) == ShowError(d, "failed", "failed", log_ok)

\* Mutant of MtimeChanged: no tick reloads.
MtimeChangedNever(seen, m) == FALSE

\* Mutant of MtimeChanged: every tick reloads.
MtimeChangedAlways(seen, m) == TRUE

\* self.last_mtime != mtime
MtimeChanged(seen, m) == seen # <<m>>

\* Mutant of Reloaded: the panels are redrawn only when an id entered or left
\* a panel.
ReloadedWhenMoved(d, m, v, log_ok) ==
    LET w == Current(v.waiting)
        c == Current(v.calling)
        wev == PanelEvents("waiting", d.waiting_snapshot, w)
        cev == PanelEvents("calling", d.calling_snapshot, c)
        moved == wev \cup cev # {}
    IN [d EXCEPT !.waiting_snapshot = w,
                 !.calling_snapshot = c,
                 !.waiting_var = IF moved THEN WaitingText(v.waiting) ELSE @,
                 !.calling_var = IF moved THEN CallingText(v.calling) ELSE @,
                 !.last_mtime = <<m>>,
                 !.polling = log_ok,
                 !.tick = [outcome |-> "reloaded", waiting |-> v.waiting,
                           calling |-> v.calling, events |-> wev \cup cev]]

\* The try block of _poll_queue after load_orders returned: _update_lists,
\* the watermark, the log line.  An append_log that raises ends the block
\* where it stands and the except branch shows the error.
Reloaded(d, m, v, log_ok) ==
    LET w == Current(v.waiting)
        c == Current(v.calling)
        wev == PanelEvents("waiting", d.waiting_snapshot, w)
        cev == PanelEvents("calling", d.calling_snapshot, c)
        aborted(e) == [ShowError(e, "failed", "aborted", FALSE)
                          EXCEPT !.tick.waiting = v.waiting,
                                 !.tick.calling = v.calling]
    IN IF ~log_ok /\ wev # {} THEN aborted(d)
       ELSE IF ~log_ok /\ cev # {}
            THEN aborted([d EXCEPT !.waiting_snapshot = w])
       ELSE LET e == [d EXCEPT !.waiting_snapshot = w,
                               !.calling_snapshot = c,
                               !.waiting_var = WaitingText(v.waiting),
                               !.calling_var = CallingText(v.calling),
                               !.last_mtime = <<m>>]
            IN IF ~log_ok THEN aborted(e)
               ELSE [e EXCEPT !.tick = [outcome |-> "reloaded",
                                        waiting |-> v.waiting,
                                        calling |-> v.calling,
                                        events |-> wev \cup cev]]

\* _poll_queue
PollQueue(f, m, d, log_ok) ==
    IF f.kind = "absent" THEN ShowError(d, "missing", "missing", log_ok)
    ELSE IF MtimeChanged(d.last_mtime, m)
         THEN LET v == LoadOrders(f)
              IN IF v.err # "ok" THEN LoadFailed(d, m, log_ok)
                 ELSE Reloaded(d, m, v, log_ok)
         ELSE [d EXCEPT !.tick = [NoTick EXCEPT !.outcome = "unchanged"]]

\* One run of _poll_queue; log_ok is whether the log file can be written.
Poll ==
    /\ polling
    /\ \E log_ok \in BOOLEAN :
          LET d == PollQueue(file, mtime, Display, log_ok)
          IN /\ last_mtime' = d.last_mtime
             /\ waiting_snapshot' = d.waiting_snapshot
             /\ calling_snapshot' = d.calling_snapshot
             /\ waiting_var' = d.waiting_var
             /\ calling_var' = d.calling_var
             /\ polling' = d.polling
             /\ tick' = d.tick
    /\ UNCHANGED <<file, mtime, now, last, issued, procs, complete, stat_mtime>>

\* The orders of the stores the display is run on
Stored(id, status, queued_at, updated_at, completed_at) ==
    [id |-> id, status |-> status, queued_at |-> queued_at,
     updated_at |-> updated_at, completed_at |-> completed_at]

DisplayQueues ==
    {<<>>,
     <<Stored(Format03d(1), RECEIVED, <<1>>, <<>>, <<>>)>>,
     <<Stored(Format03d(1), IN_PROGRESS, <<1>>, <<2>>, <<>>)>>,
     <<Stored(Format03d(1), DONE, <<1>>, <<2>>, <<2>>)>>,
     <<Stored(Format03d(1), DONE, <<1>>, <<2>>, <<>>),
       Stored(Format03d(2), DONE, <<1>>, <<>>, <<1>>),
       Stored(Format03d(3), RECEIVED, <<2>>, <<>>, <<>>),
       Stored(Format03d(4), RECEIVED, <<1>>, <<>>, <<>>),
       Stored(Format03d(5), IN_PROGRESS, <<1>>, <<1>>, <<>>)>>,
     <<Stored(Format03d(1), PaddedDone, <<1>>, <<>>, <<1>>),
       Stored(Format03d(2), OnHold, <<1>>, <<>>, <<>>),
       Stored(None, RECEIVED, <<>>, <<>>, <<>>),
       Stored(Format03d(3), "", <<1>>, <<>>, <<>>)>>,
     <<Stored(Format03d(1), RECEIVED, <<1>>, <<>>, <<>>),
       Stored(Format03d(1), DONE, <<1>>, <<>>, <<1>>)>>}

\* The stores the display is run on: missing, not JSON, not an object, with
\* an "orders" value that is a number or null, and with each of the queues
DisplayFiles ==
    {AbsentFile, [AbsentFile EXCEPT !.kind = "garbage"],
     [AbsentFile EXCEPT !.kind = "nonobject"],
     [ObjectFile(<<>>, 0) EXCEPT !.orders.tag = "other"],
     [ObjectFile(<<>>, 0) EXCEPT !.orders.tag = "null"]}
    \cup {ObjectFile(q, 0) : q \in DisplayQueues}

\* Another process writes, replaces or deletes queue.json.
Write ==
    /\ \E f \in DisplayFiles, m \in 0..MaxMtime :
          /\ file' = f
          /\ mtime' = IF f.kind = "absent" THEN 0 ELSE m
          /\ complete' = f
    /\ UNCHANGED <<now, last, issued, procs>>
    /\ UNCHANGED displayVars

InitDisplay ==
    /\ file \in DisplayFiles
    /\ now = 1
    /\ last = NoInvocation
    /\ issued = 0
    /\ mtime = 0
    /\ DisplayInit
    /\ ProcsInit

NextDisplay == Poll \/ Write

SpecDisplay == InitDisplay /\ [][NextDisplay]_vars

----------------------------------------------------------------------------
\* Control invocations that run side by side, each in the steps of main:
\* load_queue and the change in memory, the open of save_queue (which
\* truncates the file), the write of save_queue, the report (print and
\* append_log).

Command(op, arg) == [op |-> op, arg |-> arg]

\* The handler main calls for the command
Run(cmd, f, t) ==
    CASE cmd.op = "register" -> RegisterOrder(f, cmd.arg, t)
      [] cmd.op = "start" -> UpdateStatus(f, cmd.arg, IN_PROGRESS, t)
      [] cmd.op = "finish" -> UpdateStatus(f, cmd.arg, DONE, t)
      [] cmd.op = "handoff" -> RemoveOrder(f, cmd.arg, TRUE)
      [] OTHER -> RemoveOrder(f, cmd.arg, FALSE)

\* A file that is not JSON: empty after the open, or the bytes of two writes
GarbageFile == [AbsentFile EXCEPT !.kind = "garbage"]

\* The modification time after a write: the same reading of the file
\* system's clock or a later one
Stamp(m, incs) == {m + i : i \in {j \in incs : m + j <= MaxMtime}}

\* The commands of the two racing invocations
RaceCommands(f) ==
    {Command("register", None), Command("register", <<"3">>)}
    \cup {Command("finish", id) : id \in StoredIds(f)}

\* The commands of the writer the display reads behind
FeedCommands(f) ==
    {Command("register", None), Command("handoff", None)}
    \cup {Command(op, id) : op \in {"start", "finish", "cancel"},
                            id \in StoredIds(f)}

\* main up to save_queue: load_queue, the handler's checks and its change of
\* the loaded snapshot.  A handler that raises ends the invocation.
Begin(p, commands, max_orders) ==
    /\ procs[p].pc = "idle"
    /\ \E cmd \in commands :
          LET r == Run(cmd, file, now)
          IN /\ r.err = "ok" =>
                   /\ WithinBounds(r.file)
                   /\ Len(r.file.orders.items) <= max_orders
             /\ procs' = [procs EXCEPT ![p] =
                   [pc |-> IF r.err = "ok" THEN "loaded" ELSE "idle",
                    op |-> cmd.op, arg |-> cmd.arg, pending |-> r.file,
                    loaded |-> LoadQueue(file).count,
                    truncated |-> file.kind = "garbage",
                    err |-> r.err, ret |-> r.ret, overlap |-> FALSE,
                    exit |-> "ok"]]
    /\ UNCHANGED <<file, mtime, now, last, issued, complete>>
    /\ UNCHANGED displayVars

\* save_queue, QUEUE_PATH.open("w"): the file is created or emptied.
Open(p, incs) ==
    /\ procs[p].pc = "loaded"
    /\ file' = GarbageFile
    /\ mtime' \in Stamp(mtime, incs)
    /\ procs' = [procs EXCEPT ![p].pc = "opened"]
    /\ UNCHANGED <<now, last, issued, complete>>
    /\ UNCHANGED displayVars

\* Mutant of Written: a save keeps the orders it finds in the file.
WrittenMerged(p, content) ==
    IF content.kind = "object"
    THEN [content EXCEPT !.orders.items = LoadQueue(file).orders \o @]
    ELSE content

\* Mutant of Written: a save keeps the larger of the counters.
WrittenMaxCount(p, content) ==
    IF content.kind = "object" /\ LoadQueue(file).count > content.count.val
    THEN [content EXCEPT !.count.val = LoadQueue(file).count]
    ELSE content

\* What the file holds after process p wrote content from the start of it
Written(p, content) == content

\* save_queue, json.dump and the close: the bytes are written from the start
\* of the file.  When another invocation wrote the file after this one opened
\* it, the bytes of the longer write stay behind those of this one, and the
\* file is not JSON unless this write covers the other.
Flush(p, incs) ==
    /\ procs[p].pc = "opened"
    /\ \E content \in (IF procs[p].overlap THEN {procs[p].pending, GarbageFile}
                       ELSE {procs[p].pending}) :
          /\ file' = Written(p, content)
          /\ complete' = IF content = GarbageFile THEN complete ELSE file'
    /\ mtime' \in Stamp(mtime, incs)
    /\ procs' = [q \in Procs |->
                   IF q = p THEN [procs[q] EXCEPT !.pc = "written"]
                   ELSE IF procs[q].pc = "opened"
                        THEN [procs[q] EXCEPT !.overlap = TRUE]
                        ELSE procs[q]]
    /\ UNCHANGED <<now, last, issued>>
    /\ UNCHANGED displayVars

\* How main ends after the save: print, then append_log, which raises when
\* the log file cannot be written
Exit(log_ok) == IF log_ok THEN "ok" ELSE "OSError"

\* main after save_queue returned: the message is printed and logged.
Report(p, logs) ==
    /\ procs[p].pc = "written"
    /\ \E log_ok \in logs :
          procs' = [procs EXCEPT ![p].pc = "idle", ![p].exit = Exit(log_ok)]
    /\ UNCHANGED <<file, mtime, now, last, issued, complete>>
    /\ UNCHANGED displayVars

\* No further invocation is started.
Stop ==
    /\ \A p \in Procs : procs[p].pc = "idle"
    /\ procs' = [p \in Procs |-> [procs[p] EXCEPT !.pc = "stopped"]]
    /\ UNCHANGED <<file, mtime, now, last, issued, complete>>
    /\ UNCHANGED displayVars

\* One run of _poll_queue whose log lines are written
PollLogged ==
    /\ polling
    /\ LET d == PollQueue(file, mtime, Display, TRUE)
       IN /\ last_mtime' = d.last_mtime
          /\ waiting_snapshot' = d.waiting_snapshot
          /\ calling_snapshot' = d.calling_snapshot
          /\ waiting_var' = d.waiting_var
          /\ calling_var' = d.calling_var
          /\ polling' = d.polling
          /\ tick' = d.tick
    /\ UNCHANGED <<file, mtime, now, last, issued, procs, complete, stat_mtime>>

\* Two invocations race; the log file may not be writable.
NextRace ==
    \/ \E p \in Procs : Begin(p, RaceCommands(file), MaxOrders)
    \/ \E p \in Procs : Open(p, {0})
    \/ \E p \in Procs : Flush(p, {0})
    \/ \E p \in Procs : Report(p, BOOLEAN)

SpecRace == Init /\ [][NextRace]_vars

\* One invocation after the other writes the store in two steps while the
\* display polls it; both log files are writable.
NextFeed ==
    \/ Begin(1, FeedCommands(file), MaxFeedOrders)
    \/ Open(1, {0, 1})
    \/ Flush(1, {0, 1})
    \/ Report(1, {TRUE})
    \/ Stop
    \/ PollLogged

SpecFeed == Init /\ [][NextFeed]_vars

\* The display's timer fires again and again (root.after in _schedule_poll).
SpecFeedFair == SpecFeed /\ WF_vars(PollLogged)

----------------------------------------------------------------------------
\* A run of _poll_queue in two steps, the stat and the read, behind a writer
\* whose every save stamps the file with a later modification time

\* _poll_queue up to the comparison of the watermark: a missing file and an
\* unchanged modification time end the run; otherwise the run goes on to
\* load_orders with the modification time it has read.
PollStat ==
    /\ polling
    /\ stat_mtime = <<>>
    /\ LET reads == file.kind # "absent" /\ MtimeChanged(last_mtime, mtime)
           d == IF reads THEN Display
                ELSE PollQueue(file, mtime, Display, TRUE)
       IN /\ last_mtime' = d.last_mtime
          /\ waiting_snapshot' = d.waiting_snapshot
          /\ calling_snapshot' = d.calling_snapshot
          /\ waiting_var' = d.waiting_var
          /\ calling_var' = d.calling_var
          /\ polling' = d.polling
          /\ tick' = d.tick
          /\ stat_mtime' = IF reads THEN <<mtime>> ELSE <<>>
    /\ UNCHANGED <<file, mtime, now, last, issued, procs, complete>>

\* The try block of _poll_queue: load_orders reads the file as it is now, the
\* watermark becomes the modification time read before.
PollRead ==
    /\ polling
    /\ stat_mtime # <<>>
    /\ LET v == LoadOrders(file)
           d == IF v.err # "ok" THEN LoadFailed(Display, stat_mtime[1], TRUE)
                ELSE Reloaded(Display, stat_mtime[1], v, TRUE)
       IN /\ last_mtime' = d.last_mtime
          /\ waiting_snapshot' = d.waiting_snapshot
          /\ calling_snapshot' = d.calling_snapshot
          /\ waiting_var' = d.waiting_var
          /\ calling_var' = d.calling_var
          /\ polling' = d.polling
          /\ tick' = d.tick
          /\ stat_mtime' = <<>>
    /\ UNCHANGED <<file, mtime, now, last, issued, procs, complete>>

\* One invocation after the other saves the store, each save at a later
\* modification time, while the display runs its ticks in two steps.
NextSplit ==
    \/ Begin(1, FeedCommands(file), MaxFeedOrders)
    \/ Open(1, {1})
    \/ Flush(1, {0, 1})
    \/ Report(1, {TRUE})
    \/ PollStat
    \/ PollRead

SpecSplit == Init /\ [][NextSplit]_vars

----------------------------------------------------------------------------
\* The persisted queue as the next invocation loads it

Orders == LoadQueue(file).orders
Count == LoadQueue(file).count

\* The step is an invocation of one of the commands in ops
Invoked(ops) == last'.op \in ops
Succeeded(ops) == last'.op \in ops /\ last'.err = "ok"

\* s is what is left of q after the order at position i is taken out
IsWithout(s, q, i) ==
    /\ Len(s) = Len(q) - 1
    /\ \A j \in 1..Len(q) : (j < i => s[j] = q[j]) /\ (j > i => s[j - 1] = q[j])

\* s is n written in decimal digits, padded with zeros to three digits
IsPadded3(s, n) ==
    /\ IntAccepts(s)
    /\ StrToInt(s) = n
    /\ Len(s) >= 3
    /\ Len(s) > 3 => s[1] # "0"

----------------------------------------------------------------------------
\* C1: from an empty or missing store, no two orders of the persisted queue
\* have the same id, whatever operations ran.
C1_UniqueIds ==
    \A i, j \in 1..Len(Orders) : i # j => Orders[i].id # Orders[j].id

\* A register of an id that an order already holds was refused while the
\* queue held two orders.
C1_Witness ==
    /\ Len(Orders) = 2
    /\ last.op = "register" /\ last.err = "DuplicateId"
    /\ HasId(Orders, last.arg)

\* C2: a successful register without an explicit id adds one to the persisted
\* counter and returns that counter value zero-padded to three digits; when
\* the invocation before it was a successful register without an id too, the
\* new id is the larger number.  (By induction N such registers in a row
\* return increasing ids and add N to the counter.)
C2_AutoIds ==
    [][(Succeeded({"register"}) /\ ~Truthy(last'.arg)) =>
          /\ Count' = Count + 1
          /\ IsPadded3(last'.ret, Count')
          /\ (last.op = "register" /\ last.err = "ok" /\ ~Truthy(last.arg))
                => StrToInt(last'.ret) > StrToInt(last.ret)]_vars

\* Two registers without an id ran in a row on the empty store.
C2_Witness ==
    /\ last.op = "register" /\ last.arg = None /\ last.err = "ok"
    /\ last.ret = <<"0", "0", "2">>
    /\ Count = 2
    /\ Len(Orders) = 2 /\ Orders[1].id = <<"0", "0", "1">>
    /\ Orders[1].status = RECEIVED

\* register("050") after three registers without an id, then a register
\* without an id: the counter jumps to 50 and the next id is "051".
Scenario050 ==
    LET r1 == RegisterOrder(AbsentFile, None, 1)
        r2 == RegisterOrder(r1.file, None, 1)
        r3 == RegisterOrder(r2.file, None, 1)
        r4 == RegisterOrder(r3.file, <<"0", "5", "0">>, 1)
        r5 == RegisterOrder(r4.file, None, 1)
    IN /\ r3.err = "ok" /\ r3.ret = <<"0", "0", "3">>
       /\ r4.err = "ok" /\ LoadQueue(r4.file).count = 50
       /\ r5.err = "ok" /\ r5.ret = <<"0", "5", "1">>
       /\ LoadQueue(r5.file).count = 51

\* C3: a successful register with an explicit id sets the counter to the
\* id's number when the id is all digits and its number exceeds the counter,
\* and leaves the counter unchanged otherwise; every id generated later is a
\* larger number than every number register has returned before (so
\* register("050") followed by a register without an id yields "051").
C3_ExplicitAdvancesCounter ==
    [][/\ Scenario050
       /\ (Succeeded({"register"}) /\ Truthy(last'.arg)) =>
             Count' = IF IntAccepts(last'.arg) /\ StrToInt(last'.arg) > Count
                      THEN StrToInt(last'.arg)
                      ELSE Count
       /\ (Succeeded({"register"}) /\ ~Truthy(last'.arg)) =>
             StrToInt(last'.ret) > issued]_vars

\* An id was generated after an explicit numeric id had raised the counter:
\* the order "002" registered by hand is followed by the generated "003".
C3_Witness ==
    /\ last.op = "register" /\ last.arg = None /\ last.err = "ok"
    /\ last.ret = <<"0", "0", "3">>
    /\ Len(Orders) = 2 /\ Orders[1].id = <<"0", "0", "2">>
    /\ Count = 3

\* C4: no invocation decreases the persisted counter, and start, finish,
\* handoff and cancel leave it unchanged.
C4_CounterMonotonic ==
    [][/\ Count' >= Count
       /\ Invoked({"start", "finish", "handoff", "cancel"}) => Count' = Count]_vars

\* An order was removed from a queue whose counter had advanced.
C4_Witness ==
    /\ last.op \in {"handoff", "cancel"} /\ last.err = "ok"
    /\ Count > Len(Orders)
    /\ Len(Orders) > 0

\* C5: start, finish, cancel and handoff of an id that no stored order has
\* fail with NotFound and leave the file as it was.
C5_UnknownIdNotFound ==
    [][(/\ Invoked({"start", "finish", "cancel", "handoff"})
        /\ Truthy(last'.arg)
        /\ \A i \in 1..Len(Orders) : Orders[i].id # last'.arg) =>
          /\ last'.err = "NotFound"
          /\ file' = file]_vars

\* start was refused for an id that the non-empty queue does not hold.
C5_Witness ==
    /\ last.op = "start" /\ last.arg = UnknownId /\ last.err = "NotFound"
    /\ Len(Orders) > 0
    /\ ~HasId(Orders, UnknownId)

\* C6: register of an explicit id that a stored order holds, and register
\* without an id when the id it generates is held by a stored order, fail
\* with DuplicateId and leave the file as it was.
C6_DuplicateRefused ==
    [][(/\ Invoked({"register"})
        /\ LoadQueue(file).err = "ok"
        /\ \E i \in 1..Len(Orders) :
              Orders[i].id = IF Truthy(last'.arg) THEN last'.arg
                             ELSE Format03d(Count + 1)) =>
          /\ last'.err = "DuplicateId"
          /\ file' = file]_vars

\* A register without an id was refused: the id it generated is held by an
\* order of the queue.
C6_Witness ==
    /\ last.op = "register" /\ last.arg = None /\ last.err = "DuplicateId"
    /\ \E i \in 1..Len(Orders) : StrToInt(Orders[i].id) = Count + 1

\* C7: handoff of the id of a stored order fails with InvalidState and
\* leaves the file as it was when the order is not DONE, and removes that
\* order when it is DONE.
C7_HandoffById ==
    [][\A i \in 1..Len(Orders) :
          (Invoked({"handoff"}) /\ Truthy(last'.arg) /\ Orders[i].id = last'.arg) =>
             IF Orders[i].status = DONE
             THEN /\ last'.err = "ok"
                  /\ last'.ret = last'.arg
                  /\ IsWithout(Orders', Orders, i)
             ELSE /\ last'.err = "InvalidState"
                  /\ file' = file]_vars

\* handoff was refused for the id of a stored order that is not DONE.
C7_Witness ==
    /\ last.op = "handoff" /\ last.err = "InvalidState"
    /\ \E i \in 1..Len(Orders) : Orders[i].id = last.arg /\ Orders[i].status # DONE

\* C8: handoff without an id removes the DONE order that is earliest in the
\* stored sequence, and fails with NotFound, saving nothing, when no order
\* is DONE.
C8_HandoffOldestDone ==
    [][(Invoked({"handoff"}) /\ last'.arg = None) =>
          LET done == {i \in 1..Len(Orders) : Orders[i].status = DONE} IN
          IF done = {}
          THEN /\ last'.err = "NotFound"
               /\ file' = file
          ELSE LET first == CHOOSE i \in done : \A j \in done : i <= j IN
               /\ last'.err = "ok"
               /\ last'.ret = Orders[first].id
               /\ IsWithout(Orders', Orders, first)]_vars

\* handoff without an id removed the DONE order "002" that stood behind the
\* order "001", which is not DONE and is still in the queue.
C8_Witness ==
    /\ last.op = "handoff" /\ last.arg = None /\ last.err = "ok"
    /\ last.ret = <<"0", "0", "2">>
    /\ Len(Orders) = 1
    /\ Orders[1].id = <<"0", "0", "1">> /\ Orders[1].status # DONE

\* C9: a successful cancel or handoff takes exactly the returned order out
\* of the queue: the other orders keep their fields and their relative order
\* and the counter is unchanged.
C9_RemoveFrame ==
    [][Succeeded({"cancel", "handoff"}) =>
          /\ \E i \in 1..Len(Orders) :
                /\ Orders[i].id = last'.ret
                /\ IsWithout(Orders', Orders, i)
          /\ Count' = Count]_vars

\* cancel removed an order that was not at the head of the queue.
C9_Witness ==
    /\ last.op = "cancel" /\ last.err = "ok"
    /\ last.ret = <<"0", "0", "2">>
    /\ Len(Orders) = 1 /\ Orders[1].id = <<"0", "0", "1">>

\* C10: a successful register appends one order, RECEIVED and with
\* queued_at set to the clock reading, and leaves the orders stored before
\* it unchanged and in place.
C10_RegisterAppends ==
    [][Succeeded({"register"}) =>
          /\ Len(Orders') = Len(Orders) + 1
          /\ \A j \in 1..Len(Orders) : Orders'[j] = Orders[j]
          /\ Orders'[Len(Orders')] =
                [id |-> last'.ret, status |-> RECEIVED, queued_at |-> <<now'>>,
                 updated_at |-> <<>>, completed_at |-> <<>>]]_vars

\* An order was registered behind an order that had already been started.
C10_Witness ==
    /\ last.op = "register" /\ last.err = "ok"
    /\ Len(Orders) = 2
    /\ Orders[1].status = IN_PROGRESS
    /\ Orders[2].id = last.ret /\ Orders[2].status = RECEIVED

\* The status start and finish write
TargetStatus(op) == IF op = "start" THEN IN_PROGRESS ELSE DONE

\* C11: start and finish of a stored id set that order's status, set
\* updated_at (start) or completed_at (finish) to the clock reading, and
\* change nothing else: the order's id, queued_at, position and other
\* timestamp, the other orders and the counter stay as they were.
C11_AdvanceFrame ==
    [][\A i \in 1..Len(Orders) :
          (/\ Invoked({"start", "finish"})
           /\ Truthy(last'.arg)
           /\ Orders[i].id = last'.arg) =>
             /\ last'.err = "ok"
             /\ Count' = Count
             /\ Len(Orders') = Len(Orders)
             /\ \A j \in 1..Len(Orders) : j # i => Orders'[j] = Orders[j]
             /\ Orders'[i].id = Orders[i].id
             /\ Orders'[i].queued_at = Orders[i].queued_at
             /\ Orders'[i].status = TargetStatus(last'.op)
             /\ IF last'.op = "start"
                THEN /\ Orders'[i].updated_at = <<now'>>
                     /\ Orders'[i].completed_at = Orders[i].completed_at
                ELSE /\ Orders'[i].completed_at = <<now'>>
                     /\ Orders'[i].updated_at = Orders[i].updated_at]_vars

\* An order started in second 1 was finished in second 2 while another
\* order stood in the queue.
C11_Witness ==
    /\ last.op = "finish" /\ last.err = "ok" /\ now = 2
    /\ Len(Orders) = 2
    /\ \E i \in 1..2 :
          /\ Orders[i].id = last.ret
          /\ Orders[i].status = DONE
          /\ Orders[i].updated_at = <<1>>
          /\ Orders[i].completed_at = <<2>>

\* C12: start and finish do not look at the current status: start of a
\* stored id succeeds and leaves the order IN_PROGRESS also when it was DONE,
\* finish succeeds and leaves it DONE also when it was RECEIVED.
C12_NoTransitionCheck ==
    [][\A i \in 1..Len(Orders) :
          (/\ Invoked({"start", "finish"})
           /\ Truthy(last'.arg)
           /\ Orders[i].id = last'.arg
           /\ Orders[i].status \in {RECEIVED, IN_PROGRESS, DONE}) =>
             /\ last'.err = "ok"
             /\ Orders'[i].status = TargetStatus(last'.op)]_vars

\* start succeeded on an order that had been finished and never started:
\* it is IN_PROGRESS again and keeps its completed_at.
C12_Witness ==
    /\ last.op = "start" /\ last.err = "ok"
    /\ \E i \in 1..Len(Orders) :
          /\ Orders[i].id = last.ret
          /\ Orders[i].status = IN_PROGRESS
          /\ Orders[i].completed_at # <<>>

\* a <= b for two optional timestamps, when both are present
NotAfter(a, b) == (a # <<>> /\ b # <<>>) => a[1] <= b[1]

\* C13 as stated: in every persisted state every order has
\* queued_at <= updated_at <= completed_at for the fields that are present.
C13_TimestampsOrdered ==
    \A i \in 1..Len(Orders) :
        /\ NotAfter(Orders[i].queued_at, Orders[i].updated_at)
        /\ NotAfter(Orders[i].queued_at, Orders[i].completed_at)
        /\ NotAfter(Orders[i].updated_at, Orders[i].completed_at)

\* C13, amended: queued_at is not after updated_at nor after completed_at;
\* updated_at <= completed_at holds for the orders that are DONE, and an order
\* that is IN_PROGRESS after having been finished has completed_at <= updated_at.
C13_TimestampsOrderedByStatus ==
    \A i \in 1..Len(Orders) :
        /\ NotAfter(Orders[i].queued_at, Orders[i].updated_at)
        /\ NotAfter(Orders[i].queued_at, Orders[i].completed_at)
        /\ Orders[i].status = DONE =>
              NotAfter(Orders[i].updated_at, Orders[i].completed_at)
        /\ Orders[i].status = IN_PROGRESS =>
              NotAfter(Orders[i].completed_at, Orders[i].updated_at)

\* A DONE order carries all three timestamps, the last one later than the
\* first two.
C13_Witness ==
    \E i \in 1..Len(Orders) :
        /\ Orders[i].status = DONE
        /\ Orders[i].queued_at = <<1>>
        /\ Orders[i].updated_at = <<1>>
        /\ Orders[i].completed_at = <<2>>

\* C14 as stated: load never fails; a missing or unparseable file reads as
\* the empty snapshot, and any parseable content gives the stored orders when
\* they are a list (else none) and the stored counter when int() takes it
\* (else 0), each independently of the other.
C14_LoadNeverFails ==
    LET q == LoadQueue(file) IN
    /\ q.err = "ok"
    /\ file.kind \in {"absent", "garbage"} => q.orders = <<>> /\ q.count = 0
    /\ file.kind \notin {"absent", "garbage"} =>
          /\ q.orders = IF file.orders.tag = "list" THEN file.orders.items ELSE <<>>
          /\ q.count = IF file.count.tag \in {"int", "intstr"}
                       THEN file.count.val ELSE 0

OnlyOrder001(status) ==
    /\ Len(Orders) = 1
    /\ Orders[1].id = Format03d(1)
    /\ Orders[1].status = status

\* C16: on an empty queue register() returns "001"; start("001") leaves it
\* IN_PROGRESS with updated_at; finish("001") leaves it DONE with
\* completed_at; handoff() removes it and the queue is empty; a second
\* handoff() fails with NotFound.
C16_Lifecycle ==
    [][/\ (Orders = <<>> /\ Count = 0 /\ Invoked({"register"}) /\ last'.arg = None) =>
             /\ last'.err = "ok" /\ last'.ret = <<"0", "0", "1">>
             /\ Orders' = <<[id |-> <<"0", "0", "1">>, status |-> RECEIVED,
                             queued_at |-> <<now'>>, updated_at |-> <<>>,
                             completed_at |-> <<>>]>>
       /\ (OnlyOrder001(RECEIVED) /\ Invoked({"start"}) /\ last'.arg = Format03d(1)) =>
             /\ last'.err = "ok"
             /\ OnlyOrder001(IN_PROGRESS)'
             /\ Orders'[1].updated_at = <<now'>>
       /\ (OnlyOrder001(IN_PROGRESS) /\ Invoked({"finish"}) /\ last'.arg = Format03d(1)) =>
             /\ last'.err = "ok"
             /\ OnlyOrder001(DONE)'
             /\ Orders'[1].completed_at = <<now'>>
       /\ (OnlyOrder001(DONE) /\ Invoked({"handoff"}) /\ last'.arg = None) =>
             /\ last'.err = "ok" /\ last'.ret = Format03d(1)
             /\ Orders' = <<>>
       /\ (Orders = <<>> /\ Invoked({"handoff"}) /\ last'.arg = None) =>
             last'.err = "NotFound" /\ Orders' = <<>>]_vars

\* The second handoff() was refused on the queue the first one emptied:
\* one id was issued and no order is left.
C16_Witness ==
    /\ last.op = "handoff" /\ last.arg = None /\ last.err = "NotFound"
    /\ file.kind = "object"
    /\ Orders = <<>> /\ Count = 1 /\ issued = 1

----------------------------------------------------------------------------
\* The display's claims

\* The step is a run of _poll_queue: the store is as it was and the display
\* is not
PollStep == file' = file /\ mtime' = mtime /\ displayVars' # displayVars

\* The step is a run of _poll_queue in which load_orders returned
LoadedStep == PollStep /\ tick'.outcome \in {"reloaded", "aborted"}

\* The orders of a store whose "orders" value is a list
Listed(f) ==
    IF f.kind = "object" /\ f.orders.tag = "list" THEN f.orders.items ELSE <<>>

\* The order at position i of the store is in the view
InView(view, i) == \E k \in 1..Len(view) : view[k].index = i - 1

\* C17 as stated: the two views are disjoint; an order is in the waiting view
\* exactly when its status is RECEIVED or IN_PROGRESS, in the calling view
\* exactly when its status is DONE, in neither for any other status value,
\* and no status value makes the reload fail.
C17_PartitionByStatus ==
    [][/\ LoadedStep =>
             \A i \in 1..Len(Listed(file)) :
                /\ InView(tick'.waiting, i) <=>
                      Listed(file)[i].status \in {RECEIVED, IN_PROGRESS}
                /\ InView(tick'.calling, i) <=> Listed(file)[i].status = DONE
                /\ ~(InView(tick'.waiting, i) /\ InView(tick'.calling, i))
       /\ (PollStep /\ polling /\ last_mtime # <<mtime>> /\ file.kind = "object"
              /\ file.orders.tag = "list") => LoadedStep]_vars

\* C17, amended: the views are disjoint and membership is decided on the
\* status with its surrounding whitespace removed: a status that reads DONE
\* after stripping is in the calling view, one that reads RECEIVED or
\* IN_PROGRESS after stripping is in the waiting view, every other status is
\* in neither, and no status value makes the reload fail.
C17_PartitionByStrippedStatus ==
    [][/\ LoadedStep =>
             \A i \in 1..Len(Listed(file)) :
                /\ InView(tick'.waiting, i) <=>
                      Strip(Listed(file)[i].status) \in {RECEIVED, IN_PROGRESS}
                /\ InView(tick'.calling, i) <=>
                      Strip(Listed(file)[i].status) = DONE
                /\ ~(InView(tick'.waiting, i) /\ InView(tick'.calling, i))
       /\ (PollStep /\ polling /\ last_mtime # <<mtime>> /\ file.kind = "object"
              /\ file.orders.tag = "list") => LoadedStep]_vars

\* A store with a padded DONE, an unrecognised and an empty status was
\* reloaded: the padded one is called, the order without id waits, the other
\* two are in neither view.
C17_Witness ==
    /\ tick.outcome = "reloaded"
    /\ Len(Listed(file)) = 4
    /\ Len(tick.waiting) = 1 /\ tick.waiting[1].index = 2
    /\ Len(tick.calling) = 1 /\ tick.calling[1].index = 0
    /\ tick.calling[1].order.status = PaddedDone
    /\ Listed(file)[2].status = OnHold

\* The entries k < l of a view are in the order of (time key, index)
InOrder(view, k, l, TimeKey(_)) ==
    \/ TimeKey(view[k].order) < TimeKey(view[l].order)
    \/ /\ TimeKey(view[k].order) = TimeKey(view[l].order)
       /\ view[k].index < view[l].index

\* C18: the waiting view is sorted by (queued_at, position in the store),
\* the calling view by (completed_at, or updated_at when completed_at is
\* absent, then position): orders with equal time keys keep their stored
\* order.
C18_ViewsSorted ==
    [][LoadedStep =>
          LET QueuedAt(o) == ParseIso(o.queued_at)
              CalledAt(o) == IF o.completed_at # <<>> THEN ParseIso(o.completed_at)
                             ELSE ParseIso(o.updated_at)
          IN /\ \A k \in 1..Len(tick'.waiting) :
                   tick'.waiting[k].order = Listed(file)[tick'.waiting[k].index + 1]
             /\ \A k \in 1..Len(tick'.calling) :
                   tick'.calling[k].order = Listed(file)[tick'.calling[k].index + 1]
             /\ \A k, l \in 1..Len(tick'.waiting) :
                   k < l => InOrder(tick'.waiting, k, l, QueuedAt)
             /\ \A k, l \in 1..Len(tick'.calling) :
                   k < l => InOrder(tick'.calling, k, l, CalledAt)]_vars

\* The calling view lists the second stored order before the first, which
\* has no completed_at and a later updated_at; the waiting view lists the
\* two orders queued in second 1 in their stored order before the order
\* queued in second 2 that is stored before them.
C18_Witness ==
    /\ tick.outcome = "reloaded"
    /\ Len(tick.calling) = 2
    /\ tick.calling[1].index = 1 /\ tick.calling[2].index = 0
    /\ tick.calling[2].order.completed_at = <<>>
    /\ Len(tick.waiting) = 3
    /\ tick.waiting[1].index = 3 /\ tick.waiting[2].index = 4
    /\ tick.waiting[3].index = 2

\* C19: a tick that finds the file with the modification time of the
\* watermark does not reload: the panels, the two id -> status mappings and
\* the watermark are unchanged and no view-change event is emitted.
C19_UnchangedTick ==
    [][(PollStep /\ file.kind # "absent" /\ last_mtime = <<mtime>>) =>
          /\ UNCHANGED <<waiting_var, calling_var, waiting_snapshot,
                         calling_snapshot, last_mtime>>
          /\ tick'.outcome = "unchanged"
          /\ tick'.events = {}]_vars

\* A tick did nothing although the file, rewritten within the resolution of
\* its modification time, holds other orders than the waiting panel shows.
C19_Witness ==
    /\ tick.outcome = "unchanged"
    /\ file.kind = "object" /\ last_mtime = <<mtime>>
    /\ LoadOrders(file).err = "ok"
    /\ waiting_var.text = "list"
    /\ WaitingText(LoadOrders(file).waiting) # waiting_var

\* The file cannot be loaded by the display
Malformed(f) ==
    \/ f.kind \in {"garbage", "nonobject"}
    \/ f.kind = "object" /\ f.orders.tag = "other"

\* C20: the watermark changes only on a tick whose reload succeeded, and
\* then to the modification time the tick observed; a tick whose reload
\* fails on a malformed file leaves the watermark as it was, so it still
\* differs from the file's modification time and the next tick reloads.
C20_WatermarkAfterReload ==
    [][PollStep =>
          /\ last_mtime' # last_mtime =>
                /\ ~Malformed(file) /\ file.kind # "absent"
                /\ LoadedStep
                /\ last_mtime' = <<mtime>>
          /\ (polling /\ Malformed(file) /\ last_mtime # <<mtime>>) =>
                /\ tick'.outcome = "failed"
                /\ last_mtime' = last_mtime
                /\ last_mtime' # <<mtime'>>]_vars

\* After a successful reload the file was replaced by one that is not JSON:
\* the tick failed, the next one is scheduled and the watermark is still the
\* one of the successful reload.
C20_Witness ==
    /\ tick.outcome = "failed"
    /\ polling
    /\ file.kind = "garbage"
    /\ last_mtime # <<>> /\ last_mtime # <<mtime>>
    /\ waiting_var = Message("failed")

\* C21 as stated: after a tick that found the file absent, the next tick
\* that finds it present and readable reloads it and shows the two views in
\* place of the placeholder, whatever the file's modification time is.
C21_ReloadAfterAbsent ==
    [][(PollStep /\ tick.outcome = "missing" /\ file.kind = "object"
           /\ ~Malformed(file)) =>
          /\ LoadedStep
          /\ tick'.outcome = "reloaded" =>
                /\ waiting_var' = WaitingText(tick'.waiting)
                /\ calling_var' = CallingText(tick'.calling)]_vars

\* C22 as stated: the polling loop never stops; every tick, whatever it
\* found and whether or not the log could be written, schedules the next one.
C22_PollingNeverStops == polling

\* The step is a run of _poll_queue that reloaded and logged
ReloadedStep == PollStep /\ tick'.outcome = "reloaded"

\* The ids of the two mappings before and after the step
MappedIds ==
    DOMAIN waiting_snapshot \cup DOMAIN calling_snapshot
    \cup DOMAIN waiting_snapshot' \cup DOMAIN calling_snapshot'

\* C29: on a successful reload the feed emits, per view, an 'entered' event
\* for exactly the ids in the view's new id -> status mapping and not in the
\* previous one, and a 'left' event for exactly the ids in the previous
\* mapping and not in the new one; a move from the waiting to the calling
\* view gives one 'left' and one 'entered', a status change within a view
\* gives no event.
C29_EventsAreDifference ==
    [][ReloadedStep =>
          /\ \A e \in tick'.events :
                e.panel \in {"waiting", "calling"} /\ e.id \in MappedIds
          /\ \A id \in MappedIds :
                /\ [panel |-> "waiting", id |-> id, shown |-> TRUE] \in tick'.events
                      <=> id \in DOMAIN waiting_snapshot' \ DOMAIN waiting_snapshot
                /\ [panel |-> "waiting", id |-> id, shown |-> FALSE] \in tick'.events
                      <=> id \in DOMAIN waiting_snapshot \ DOMAIN waiting_snapshot'
                /\ [panel |-> "calling", id |-> id, shown |-> TRUE] \in tick'.events
                      <=> id \in DOMAIN calling_snapshot' \ DOMAIN calling_snapshot
                /\ [panel |-> "calling", id |-> id, shown |-> FALSE] \in tick'.events
                      <=> id \in DOMAIN calling_snapshot \ DOMAIN calling_snapshot'
          /\ DOMAIN waiting_snapshot' =
                {tick'.waiting[k].order.id : k \in 1..Len(tick'.waiting)} \ {None, <<>>}
          /\ DOMAIN calling_snapshot' =
                {tick'.calling[k].order.id : k \in 1..Len(tick'.calling)} \ {None, <<>>}]_vars

\* Order 001 was waiting at the previous reload and is called at this one:
\* the reload emitted its leaving the waiting view and its entering the
\* calling view, and nothing else.
C29_Witness ==
    /\ tick.outcome = "reloaded"
    /\ tick.events = {[panel |-> "waiting", id |-> Format03d(1), shown |-> FALSE],
                      [panel |-> "calling", id |-> Format03d(1), shown |-> TRUE]}
    /\ DOMAIN calling_snapshot = {Format03d(1)}
    /\ DOMAIN waiting_snapshot = {}

\* The positions in the store of the orders whose stripped status is in
\* statuses
Recognised(f, statuses) ==
    {i \in 1..Len(Listed(f)) : Strip(Listed(f)[i].status) \in statuses}

\* C30: after every successful reload the two panels show exactly the ids
\* of the orders of the loaded snapshot that have a recognised status, one
\* line each: what is shown is computed from the snapshot alone, not from
\* the previous mappings or the events, and an id that left the store is
\* not shown.
C30_ShownFromSnapshot ==
    [][ReloadedStep =>
          /\ Len(waiting_var'.items) =
                Cardinality(Recognised(file, {RECEIVED, IN_PROGRESS}))
          /\ Len(calling_var'.items) = Cardinality(Recognised(file, {DONE}))
          /\ {waiting_var'.items[k][1] : k \in 1..Len(waiting_var'.items)} =
                {Listed(file)[i].id : i \in Recognised(file, {RECEIVED, IN_PROGRESS})}
          /\ {calling_var'.items[k] : k \in 1..Len(calling_var'.items)} =
                {Listed(file)[i].id : i \in Recognised(file, {DONE})}]_vars

\* A reload of a store that no longer holds order 001, which was waiting at
\* the previous reload and is not in the previous mapping of the calling
\* view: the waiting panel shows the other order only.
C30_Witness ==
    /\ tick.outcome = "reloaded"
    /\ [panel |-> "waiting", id |-> Format03d(1), shown |-> FALSE] \in tick.events
    /\ Len(Listed(file)) = 4
    /\ Len(waiting_var.items) = 1
    /\ waiting_var.items[1][1] = None
    /\ calling_var.items = <<Format03d(1)>>

----------------------------------------------------------------------------
\* Claims about invocations that run side by side and about the display
\* behind a writer

\* Process p takes the given step of main
Steps(p, from, to) == procs[p].pc = from /\ procs'[p].pc = to

\* C23 as stated: a log line that cannot be written is swallowed: it never
\* makes a control operation fail after its change was saved, and it never
\* aborts a tick of the display.
C23_LogFailureSwallowed ==
    [][/\ \A p \in Procs : Steps(p, "written", "idle") => procs'[p].exit = "ok"
       /\ PollStep => polling' /\ tick'.outcome # "aborted"]_vars

\* Every process has ended and none will be started
Stopped == \A p \in Procs : procs[p].pc = "stopped"

\* The two panels show the views of the store as it is
ShowsStore ==
    /\ LoadOrders(file).err = "ok"
    /\ waiting_var = WaitingText(LoadOrders(file).waiting)
    /\ calling_var = CallingText(LoadOrders(file).calling)

\* C24 as stated: when the writers have stopped after a complete write and
\* the display keeps ticking, the display eventually shows the views of the
\* final store.
C24_EventuallyShowsFinal == (Stopped /\ file.kind = "object") ~> ShowsStore

\* C24, amended: ... provided the final write left the file with a
\* modification time that is not the display's watermark.
C24_EventuallyShowsFinalIfStamped ==
    (Stopped /\ file.kind = "object" /\ last_mtime # <<mtime>>) ~> ShowsStore

\* The writers have stopped and the display has reloaded the final store,
\* which holds an order and was written after the display's first reload.
C24_Witness ==
    /\ Stopped
    /\ tick.outcome = "reloaded"
    /\ ShowsStore
    /\ Len(Listed(file)) = 1
    /\ mtime = 2 /\ last_mtime = <<2>>

\* C25: two invocations are not coordinated: an invocation whose handler
\* succeeded on the snapshot it loaded writes that snapshot's successor over
\* whatever the file holds at that moment and reports success, so an order
\* whose register was reported can be missing from the store although
\* nothing removed it.
C25_LastWriteWins ==
    [][\A p \in Procs :
          /\ Steps(p, "opened", "written") =>
                /\ procs[p].err = "ok"
                /\ file' \in {procs[p].pending, GarbageFile}
                /\ ~procs[p].overlap => file' = procs[p].pending
          /\ Steps(p, "written", "idle") =>
                procs'[p].err = "ok" /\ procs'[p].ret = procs[p].ret]_vars

\* Both invocations reported their register, of 001 and of 3, no remove has
\* run, and the store holds one order.
C25_Witness ==
    /\ \A p \in Procs :
          /\ procs[p].pc = "idle" /\ procs[p].op = "register"
          /\ procs[p].err = "ok" /\ procs[p].exit = "ok"
    /\ {procs[p].ret : p \in Procs} = {Format03d(1), <<"3">>}
    /\ file.kind = "object"
    /\ Len(Orders) = 1

\* C26 as stated: also when two invocations interleave, every save writes a
\* counter that is not below the counter of the content the file held
\* before that save.
C26_CounterMonotonicInterleaved ==
    [][LoadQueue(complete').count >= LoadQueue(complete).count]_vars

\* C26, amended: every save writes the counter its own invocation computed
\* from the counter it loaded: that counter for start, finish and remove,
\* one more for a generated id, the larger of it and the id's number for an
\* explicit id.  It is not below the loaded counter; it can be below the
\* counter another invocation saved in between.
C26_CounterFromLoaded ==
    [][\A p \in Procs :
          (Steps(p, "opened", "written") /\ file' # GarbageFile) =>
             /\ Count' >= procs[p].loaded
             /\ procs[p].op # "register" => Count' = procs[p].loaded
             /\ (procs[p].op = "register" /\ procs[p].arg = None) =>
                   Count' = procs[p].loaded + 1
             /\ (procs[p].op = "register" /\ procs[p].arg = <<"3">>) =>
                   Count' = IF procs[p].loaded > 3 THEN procs[p].loaded ELSE 3]_vars

\* An invocation that loaded counter 0 saved counter 1 over the counter 3
\* that the other invocation had saved in between.
C26_Witness ==
    /\ \E p \in Procs :
          /\ procs[p].pc = "written" /\ procs[p].loaded = 0
          /\ procs[p].arg = None
          /\ \E q \in Procs \ {p} :
                procs[q].pc = "idle" /\ procs[q].ret = <<"3">> /\ procs[q].err = "ok"
    /\ file.kind = "object" /\ Count = 1

\* C27: the display tolerates a save that is not atomic: a tick that reads
\* the file while it is absent or half-written shows the placeholder, keeps
\* the mappings and the watermark and schedules the next tick; a tick that
\* reloads reads a content that a save finished writing.
C27_ToleratesPartialFile ==
    [][/\ (PollStep /\ (file.kind = "absent"
                        \/ (file.kind = "garbage" /\ last_mtime # <<mtime>>))) =>
             /\ waiting_var' = Message(IF file.kind = "absent" THEN "missing"
                                       ELSE "failed")
             /\ calling_var' = waiting_var'
             /\ polling'
             /\ UNCHANGED <<last_mtime, waiting_snapshot, calling_snapshot>>
       /\ LoadedStep =>
             /\ file = complete
             /\ waiting_var' = WaitingText(LoadOrders(complete).waiting)
             /\ calling_var' = CallingText(LoadOrders(complete).calling)]_vars

\* A tick read the file between the open and the write of a save, after an
\* earlier reload: the placeholder is shown, the watermark is the one of the
\* earlier reload and the next tick is scheduled.
C27_Witness ==
    /\ tick.outcome = "failed"
    /\ file = GarbageFile
    /\ procs[1].pc = "opened"
    /\ polling
    /\ waiting_var = Message("failed")
    /\ last_mtime # <<>> /\ last_mtime # <<mtime>>

\* The view an id is in according to the two mappings
Membership(id, waiting, calling) ==
    IF id \in DOMAIN calling THEN "CALLING"
    ELSE IF id \in DOMAIN waiting THEN "WAITING" ELSE "absent"

\* C28 as stated: over successive successful reloads the membership of an
\* id changes only from absent to WAITING, from WAITING to CALLING and from
\* CALLING to absent.
C28_ForwardEdgesOnly ==
    [][ReloadedStep =>
          \A id \in MappedIds :
             LET was == Membership(id, waiting_snapshot, calling_snapshot)
                 is == Membership(id, waiting_snapshot', calling_snapshot')
             IN \/ was = is
                \/ <<was, is>> \in {<<"absent", "WAITING">>,
                                    <<"WAITING", "CALLING">>,
                                    <<"CALLING", "absent">>}]_vars

\* C28, amended: at every successful reload an id is in the view of the
\* status its order has in the loaded store, in at most one view, and absent
\* when the store has no order of that id, whatever view it was in before:
\* the feed follows the store and every change between absent, WAITING and
\* CALLING can be observed.
C28_MembershipFollowsStore ==
    [][ReloadedStep =>
          /\ DOMAIN waiting_snapshot' \cap DOMAIN calling_snapshot' = {}
          /\ \A id \in MappedIds \cup StoredIds(file) :
                Membership(id, waiting_snapshot', calling_snapshot') =
                   IF \E i \in 1..Len(Listed(file)) :
                         Listed(file)[i].id = id /\ Listed(file)[i].status = DONE
                   THEN "CALLING"
                   ELSE IF \E i \in 1..Len(Listed(file)) :
                              /\ Listed(file)[i].id = id
                              /\ Listed(file)[i].status \in {RECEIVED, IN_PROGRESS}
                        THEN "WAITING" ELSE "absent"]_vars

\* A reload after a cancel: order 001, which was waiting at the previous
\* reload, is in no view, and was never in the calling view.
C28_Witness ==
    /\ tick.outcome = "reloaded"
    /\ procs[1].op = "cancel" /\ procs[1].err = "ok" /\ procs[1].pc = "idle"
    /\ tick.events = {[panel |-> "waiting", id |-> Format03d(1), shown |-> FALSE]}
    /\ Listed(file) = <<>>

----------------------------------------------------------------------------
\* Claims about the report of main, the lookup by an empty id, generated ids
\* and timestamps

AllOps == {"register", "start", "finish", "handoff", "cancel"}

\* C31: every invocation appends one audit line: an INFO line after a
\* successful operation, an ERROR line when the operation fails with
\* NotFound, DuplicateId or InvalidState; such a failure does not leave main
\* as an exception and the queue file is not written.
C31_OneAuditLine ==
    [][Invoked(AllOps) =>
          /\ Len(last'.lines) = 1
          /\ last'.err = "ok" => last'.lines = <<"INFO">>
          /\ last'.err \in {"NotFound", "DuplicateId", "InvalidState"} =>
                /\ last'.lines = <<"ERROR">>
                /\ last'.raised = "none"
                /\ file' = file /\ mtime' = mtime]_vars

\* A handoff of an order that is not DONE was refused and logged as an error;
\* the order is still stored.
C31_Witness ==
    /\ last.op = "handoff" /\ last.err = "InvalidState"
    /\ last.lines = <<"ERROR">> /\ last.raised = "none"
    /\ Len(Orders) = 1 /\ Orders[1].id = last.arg

\* C32: the empty string as id is treated as an omitted id: on a queue that
\* is not empty start("") and finish("") change the status of the first
\* stored order, cancel("") removes the first stored order and handoff("")
\* does what handoff without an id does; none fails with NotFound for the id.
C32_EmptyIdIsOmitted ==
    [][(last'.arg = <<>> /\ Len(Orders) > 0) =>
          /\ Invoked({"start", "finish"}) =>
                /\ last'.err = "ok"
                /\ last'.ret = Orders[1].id
                /\ Len(Orders') = Len(Orders)
                /\ Orders'[1].status = TargetStatus(last'.op)
                /\ \A i \in 2..Len(Orders) : Orders'[i] = Orders[i]
          /\ Invoked({"cancel"}) =>
                /\ last'.err = "ok"
                /\ last'.ret = Orders[1].id
                /\ Orders' = Tail(Orders)
          /\ Invoked({"handoff"}) =>
                /\ last'.err = RemoveOrder(file, None, TRUE).err
                /\ file' = RemoveOrder(file, None, TRUE).file]_vars

\* cancel("") removed order 001, the first of two stored orders.
C32_Witness ==
    /\ last.op = "cancel" /\ last.arg = <<>> /\ last.err = "ok"
    /\ last.ret = Format03d(1)
    /\ Len(Orders) = 1 /\ Orders[1].id = Format03d(2)

\* C36: one control process, from the empty store: a generated id is the
\* successor of the persisted counter and a larger number than every number
\* a register returned before, whether or not the orders that held those
\* numbers are still stored; the counter is never below the largest number
\* returned.
C36_AutoIdsNeverReissued ==
    [][/\ issued' <= Count'
       /\ (Succeeded({"register"}) /\ ~Truthy(last'.arg)) =>
             /\ StrToInt(last'.ret) = Count + 1
             /\ StrToInt(last'.ret) > issued
             /\ issued' = StrToInt(last'.ret)]_vars

\* Order 002 was generated after order 001 had been removed: it is the only
\* stored order.
C36_Witness ==
    /\ last.op = "register" /\ last.arg = None /\ last.err = "ok"
    /\ last.ret = Format03d(2)
    /\ Len(Orders) = 1 /\ Orders[1].id = Format03d(2)
    /\ issued = 2

C38_StatusHasTimestamp ==
    \A i \in 1..Len(Orders) :
       /\ Orders[i].status = DONE =>
             /\ Orders[i].completed_at # <<>>
             /\ CallingKey(Orders[i]) = Orders[i].completed_at[1]
             /\ CallingKey(Orders[i]) # ParseIso(<<>>)
       /\ Orders[i].status = IN_PROGRESS => Orders[i].updated_at # <<>>

\* The store holds an order that is DONE and one that is IN_PROGRESS.
C38_Witness ==
    /\ Len(Orders) = 2
    /\ Orders[1].status = DONE /\ Orders[1].completed_at # <<>>
    /\ Orders[2].status = IN_PROGRESS /\ Orders[2].updated_at # <<>>

\* A register without an id on store f is refused as a duplicate
Stuck(f) == RegisterOrder(f, None, 1).err = "DuplicateId"

\* The id a register without an id generates on the persisted store
NextAutoId == GenerateAutoId(GenerateAutoCount(Count))

\* A register without an id was refused as a duplicate
AutoRefused ==
    Invoked({"register"}) /\ ~Truthy(last'.arg) /\ last'.err = "DuplicateId"

\* C40 as stated: a register without an id that fails with DuplicateId does
\* not persist the counter, and while the colliding order stays in the queue
\* every register without an id fails again.
C40_StuckWhileOrderStays ==
    [][/\ AutoRefused => file' = file
       /\ (Stuck(file) /\ HasId(Orders', NextAutoId)) => Stuck(file')]_vars

\* C40, amended: ... while the colliding order stays in the queue and the
\* persisted counter is the same.
C40_StuckWhileOrderAndCounterStay ==
    [][/\ AutoRefused => file' = file /\ Stuck(file')
       /\ (Stuck(file) /\ HasId(Orders', NextAutoId) /\ Count' = Count) =>
             Stuck(file')]_vars

\* A register without an id was refused on a store whose counter is not a
\* number and which holds order 001; the next one will be refused too.
C40_Witness ==
    /\ last.op = "register" /\ last.arg = None /\ last.err = "DuplicateId"
    /\ file.kind = "object" /\ file.count.tag = "badstr"
    /\ Len(Orders) = 1 /\ Orders[1].id = Format03d(1)
    /\ Stuck(file)

----------------------------------------------------------------------------
\* Claims about a load during another invocation's save and about ids under
\* interleaving

\* C33: an invocation that loads the file while another invocation's save
\* has emptied it and not yet written it reads the empty snapshot; a register
\* then saves a queue that holds only its own order, with the counter
\* restarted from 0 (1 for a generated id, which is 001), whatever was stored
\* before.
C33_LoadDuringSaveLosesQueue ==
    [][\A p \in Procs :
          /\ (procs[p].pc = "idle" /\ procs'[p] # procs[p]
              /\ file.kind = "garbage" /\ procs'[p].op = "register") =>
                /\ procs'[p].pc = "loaded" /\ procs'[p].err = "ok"
                /\ procs'[p].loaded = 0
                /\ procs'[p].arg = None => procs'[p].ret = Format03d(1)
                /\ procs'[p].pending =
                      ObjectFile(<<NewOrder(procs'[p].ret, now)>>,
                                 IF procs'[p].arg = None THEN 1 ELSE 3)
          /\ (Steps(p, "opened", "written") /\ procs[p].truncated
              /\ file' # GarbageFile) =>
                /\ Len(Orders') = 1
                /\ Orders'[1].id = procs[p].ret
                /\ Count' = IF procs[p].arg = None THEN 1 ELSE 3]_vars

\* Order 3 was stored with counter 3 when the other invocation began its
\* finish; this invocation loaded the file that finish had emptied and saved
\* order 001 with counter 1: order 3 is lost.
C33_Witness ==
    \E p \in Procs, q \in Procs :
       /\ procs[q].op = "finish" /\ procs[q].err = "ok" /\ procs[q].ret = <<"3">>
       /\ procs[p].op = "register" /\ procs[p].arg = None /\ procs[p].truncated
       /\ procs[p].pc = "written"
       /\ file = ObjectFile(<<NewOrder(Format03d(1), now)>>, 1)

\* The ids of the orders are pairwise distinct
Distinct(orders) ==
    \A i \in 1..Len(orders), j \in 1..Len(orders) :
       i # j => orders[i].id # orders[j].id

\* C35: under every interleaving of two invocations every snapshot a save
\* writes has pairwise distinct ids: the snapshot each invocation is about to
\* write, the last one a save finished writing, and the file when it is
\* readable.
C35_UniqueIdsInterleaved ==
    /\ Distinct(Orders)
    /\ Distinct(LoadQueue(complete).orders)
    /\ \A p \in Procs : Distinct(LoadQueue(procs[p].pending).orders)

\* Both invocations reported the register of 001 and the store holds one
\* order 001.
C35_Witness ==
    /\ \A p \in Procs :
          /\ procs[p].pc = "idle" /\ procs[p].op = "register"
          /\ procs[p].err = "ok" /\ procs[p].ret = Format03d(1)
    /\ Len(Orders) = 1 /\ Orders[1].id = Format03d(1)

----------------------------------------------------------------------------
\* Claims about the watermark

\* C34: when every save stamps the file with a modification time later than
\* all earlier ones, then whenever the watermark is the file's modification
\* time the panels and the mappings are those of the file's content: a save
\* between the stat and the read of a tick leaves the watermark behind the
\* file (one more reload follows) and never ahead of what is shown.
C34_WatermarkMeansCurrent ==
    last_mtime = <<mtime>> =>
       /\ ShowsStore
       /\ waiting_snapshot = Current(LoadOrders(file).waiting)
       /\ calling_snapshot = Current(LoadOrders(file).calling)

\* The one more reload: the latest command registered the only stored order,
\* and a reload that brought the watermark to the file's modification time
\* found that order already in the waiting mapping.
C34_Witness ==
    /\ procs[1].op = "register" /\ procs[1].err = "ok"
    /\ tick.outcome = "reloaded" /\ tick.events = {}
    /\ DOMAIN waiting_snapshot = {procs[1].ret}
    /\ last_mtime = <<mtime>>

\* C39: a tick that finds the file missing or fails to load it leaves the
\* watermark and both mappings as they were; the reload that follows it
\* reports as left only ids that are not in the view any more, and reports
\* nothing when the views hold the ids they held before the outage.
C39_DegradedTickKeepsMappings ==
    [][/\ (PollStep /\ tick'.outcome \in {"missing", "failed"}) =>
             UNCHANGED <<last_mtime, waiting_snapshot, calling_snapshot>>
       /\ (ReloadedStep /\ tick.outcome \in {"missing", "failed"}) =>
             /\ \A e \in tick'.events :
                   ~e.shown => e.id \notin DOMAIN (IF e.panel = "waiting"
                                                   THEN waiting_snapshot'
                                                   ELSE calling_snapshot')
             /\ (/\ DOMAIN Current(LoadOrders(file).waiting) = DOMAIN waiting_snapshot
                 /\ DOMAIN Current(LoadOrders(file).calling) = DOMAIN calling_snapshot)
                   => tick'.events = {}]_vars

\* A tick failed to load the file after an earlier reload: the panels show
\* the message, the waiting mapping still holds order 001 and the watermark
\* is the one of the earlier reload.
C39_Witness ==
    /\ tick.outcome = "failed"
    /\ waiting_var = Message("failed")
    /\ DOMAIN waiting_snapshot = {Format03d(1)}
    /\ last_mtime # <<>> /\ last_mtime # <<mtime>>
    /\ polling

====
